---- MODULE Spec2Model ----
(***************************************************************************)
(* Model of src/message.py: the STUN (RFC 5389) message decoder, its       *)
(* attribute factory registry and the per-attribute value decoders.        *)
(*                                                                         *)
(* A buffer is a sequence of bytes (0..255).  Buffer position p of the     *)
(* Python code (0-based) is element p+1 of the sequence.                   *)
(***************************************************************************)
EXTENDS Integers, Sequences, FiniteSets, TLC

VARIABLES
    registry,      \* StunMessage._ATTRIBUTE_FACTORIES: type code -> factory class name or None
    pc,            \* "import", "idle", "attrs", "done", "fail"
    importIdx,     \* next @stunattribute decorator of the module body to execute
    call,          \* the operation that ran last, with its arguments
    raised,        \* exception raised by the last operation, "none" if it returned
    data,          \* buffer handed to StunMessage.decode
    start,         \* the offset argument of StunMessage.decode
    offset,        \* decode_attributes: local variable offset
    end,           \* decode_attributes: local variable end
    hdr,           \* fields computed by StunMessage.decode from the header
    attributes,    \* attributes yielded so far by decode_attributes
    starts,        \* history: buffer position of the header of each yielded attribute
    msg            \* the StunMessage returned by decode, NoMsg before

vars == <<registry, pc, importIdx, call, raised, data, start, offset, end,
          hdr, attributes, starts, msg>>

---------------------------------------------------------------------------
(* Program constants *)

ATTRIBUTE_MAPPED_ADDRESS == 1
ATTRIBUTE_CHANGE_REQUEST == 3
ATTRIBUTE_USERNAME == 6
ATTRIBUTE_MESSAGE_INTEGRITY == 8
ATTRIBUTE_ERROR_CODE == 9
ATTRIBUTE_UNKNOWN_ATTRIBUTES == 10
ATTRIBUTE_CHANNEL_NUMBER == 12
ATTRIBUTE_LIFETIME == 13
ATTRIBUTE_XOR_PEER_ADDRESS == 18
ATTRIBUTE_DATA == 19
ATTRIBUTE_REALM == 20
ATTRIBUTE_NONCE == 21
ATTRIBUTE_XOR_RELAYED_ADDRESS == 22
ATTRIBUTE_EVEN_PORT == 24
ATTRIBUTE_REQUESTED_TRANSPORT == 25
ATTRIBUTE_XOR_MAPPED_ADDRESS == 32
ATTRIBUTE_RESERVATION_TOKEN == 34
ATTRIBUTE_PADDING == 38
ATTRIBUTE_RESPONSE_PORT == 39
ATTRIBUTE_SOFTWARE == 32802
ATTRIBUTE_ALTERNATE_SERVER == 32803
ATTRIBUTE_FINGERPRINT == 32808
ATTRIBUTE_RESPONSE_ORIGIN == 32811
ATTRIBUTE_OTHER_ADDRESS == 32812

FORMAT_STUN == 0
HEADER_SIZE == 20
ATTR_HEADER_SIZE == 4
VALUE_HEADER_SIZE == 4
FAMILY_IPv4 == 1
FAMILY_IPv6 == 2

None == "None"
NoMsg == [none |-> TRUE]

---------------------------------------------------------------------------
(* Integer operators of Python used by the code *)

RECURSIVE AndBits(_, _)
AndBits(a, b) ==
    IF a = 0 \/ b = 0 THEN 0
    ELSE (a % 2) * (b % 2) + 2 * AndBits(a \div 2, b \div 2)

RECURSIVE XorBits(_, _)
XorBits(a, b) ==
    IF a = 0 THEN b
    ELSE IF b = 0 THEN a
    ELSE ((a + b) % 2) + 2 * XorBits(a \div 2, b \div 2)

\* a & b and a ^ b; the operands are evaluated once, then combined bit by bit
BitAnd(a, b) == CHOOSE r \in {AndBits(x, y) : x \in {a}, y \in {b}} : TRUE

BitXor(a, b) == CHOOSE r \in {XorBits(x, y) : x \in {a}, y \in {b}} : TRUE

RECURSIVE Pow2(_)
Pow2(n) == IF n = 0 THEN 1 ELSE 2 * Pow2(n - 1)

ShiftRight(a, n) == a \div Pow2(n)

ShiftLeft(a, n) == a * Pow2(n)

Min(a, b) == IF a < b THEN a ELSE b

---------------------------------------------------------------------------
(* struct and buffer primitives *)

\* the bytes of d at positions [p, p+n), clamped to the buffer
Slice(d, p, n) ==
    LET lo == Min(p, Len(d))
        hi == Min(p + n, Len(d))
    IN  SubSeq(d, lo + 1, hi)

\* Python 2 buffer(data, offset, size): a negative offset and a size below -1
\* raise ValueError, size -1 means "to the end", and the view is clamped to
\* the object instead of failing when it reaches past its end
Buffer(d, p, n) ==
    IF p < 0 \/ n < -1 THEN [ok |-> FALSE, bytes |-> <<>>, err |-> "ValueError"]
    ELSE IF n = -1 THEN [ok |-> TRUE, bytes |-> Slice(d, p, Len(d)), err |-> "none"]
    ELSE [ok |-> TRUE, bytes |-> Slice(d, p, n), err |-> "none"]

\* struct.unpack_from needs n bytes at position p, else struct.error
CanUnpack(d, p, n) == p >= 0 /\ Len(d) - p >= n

\* big-endian unsigned fields at position p
U8At(d, p) == d[p + 1]

U16At(d, p) == d[p + 1] * 256 + d[p + 2]

U32At(d, p) == ((d[p + 1] * 256 + d[p + 2]) * 256 + d[p + 3]) * 256 + d[p + 4]

---------------------------------------------------------------------------
(* str.decode('UTF-8') of Python 2.7: strict, shortest form only, lead bytes *)
(* 0xC2..0xF4, surrogates accepted.  The result is the code point sequence.  *)

Utf8Length(c) ==
    IF c < 128 THEN 1
    ELSE IF c >= 194 /\ c <= 223 THEN 2
    ELSE IF c >= 224 /\ c <= 239 THEN 3
    ELSE IF c >= 240 /\ c <= 244 THEN 4
    ELSE 0

IsContinuation(c) == c >= 128 /\ c <= 191

Utf8SequenceOk(b, i, n) ==
    /\ n > 0
    /\ i + n - 1 <= Len(b)
    /\ \A j \in 1..(n - 1) : IsContinuation(b[i + j])
    /\ (n = 3 /\ b[i] = 224) => b[i + 1] >= 160
    /\ (n = 4 /\ b[i] = 240) => b[i + 1] >= 144
    /\ (n = 4 /\ b[i] = 244) => b[i + 1] <= 143

Utf8CodePoint(b, i, n) ==
    IF n = 1 THEN b[i]
    ELSE IF n = 2 THEN (b[i] - 192) * 64 + (b[i + 1] - 128)
    ELSE IF n = 3 THEN ((b[i] - 224) * 64 + (b[i + 1] - 128)) * 64 + (b[i + 2] - 128)
    ELSE (((b[i] - 240) * 64 + (b[i + 1] - 128)) * 64 + (b[i + 2] - 128)) * 64
         + (b[i + 3] - 128)

Utf8Decode(b) ==
    LET valid[i \in 1..(Len(b) + 1)] ==
            IF i > Len(b) THEN TRUE
            ELSE /\ Utf8SequenceOk(b, i, Utf8Length(b[i]))
                 /\ valid[i + Utf8Length(b[i])]
        text[i \in 1..(Len(b) + 1)] ==
            IF i > Len(b) THEN <<>>
            ELSE <<Utf8CodePoint(b, i, Utf8Length(b[i]))>> \o text[i + Utf8Length(b[i])]
    IN  IF valid[1] THEN [ok |-> TRUE, text |-> text[1]]
        ELSE [ok |-> FALSE, text |-> <<>>]

---------------------------------------------------------------------------
(* Attribute value decoders: factory.decode(data, offset, length).          *)
(* Each yields [ok, value, err]; err names the exception when ok is FALSE.  *)

Returns(v) == [ok |-> TRUE, value |-> v, err |-> "none"]

Raises(e) == [ok |-> FALSE, value |-> [kind |-> "none"], err |-> e]

\* StunMessageAttribute.decode, inherited by every class without its own decode
RawDecode(d, p, length) ==
    LET b == Buffer(d, p, length)
    IN  IF b.ok THEN Returns([kind |-> "bytes", bytes |-> b.bytes]) ELSE Raises(b.err)

MappedAddressDecode(d, p, length) ==
    IF ~CanUnpack(d, p, VALUE_HEADER_SIZE) THEN Raises("struct.error")
    ELSE LET family == U8At(d, p + 1)
             port == U16At(d, p + 2)
             address == Buffer(d, p + VALUE_HEADER_SIZE, length - VALUE_HEADER_SIZE)
         IN  IF ~address.ok THEN Raises(address.err)
             ELSE Returns([kind |-> "address", family |-> family, port |-> port,
                           address |-> address.bytes])

\* bytearray(ord(a) ^ b for a, b in zip(xaddress, magic))
XorZip(xaddress, magic) ==
    [i \in 1..Min(Len(xaddress), Len(magic)) |-> BitXor(xaddress[i], magic[i])]

\* port = xport ^ magic[0] << 8 ^ magic[1]   (<< binds tighter than ^)
XorPort(xport, magic) == BitXor(BitXor(xport, ShiftLeft(magic[1], 8)), magic[2])

XorMappedAddressDecode(d, p, length) ==
    IF ~CanUnpack(d, p, VALUE_HEADER_SIZE) THEN Raises("struct.error")
    ELSE LET family == U8At(d, p + 1)
             xport == U16At(d, p + 2)
             q == p + VALUE_HEADER_SIZE
             bound == family \in {FAMILY_IPv4, FAMILY_IPv6}
             xaddress == IF family = FAMILY_IPv4 THEN Buffer(d, q, 4).bytes
                         ELSE Buffer(d, q, 16).bytes
         IN  IF ~CanUnpack(d, 4, 16) THEN Raises("struct.error")
             ELSE LET magic == Slice(d, 4, 16)
                  IN  IF ~bound THEN Raises("UnboundLocalError")
                      ELSE Returns([kind |-> "address", family |-> family,
                                    port |-> XorPort(xport, magic),
                                    address |-> XorZip(xaddress, magic)])

\* Username.decode, Realm.decode, Software.decode
TextDecode(d, p, length) ==
    LET t == Utf8Decode(Buffer(d, p, length).bytes)
    IN  IF t.ok THEN Returns([kind |-> "text", text |-> t.text])
        ELSE Raises("UnicodeDecodeError")

ErrorCodeDecode(d, p, length) ==
    IF ~CanUnpack(d, p, 4) THEN Raises("struct.error")
    ELSE LET err_class == BitAnd(U8At(d, p + 2), 7)
             err_number == U8At(d, p + 3)
             err_reason == Utf8Decode(Buffer(d, p, length).bytes)
         IN  IF ~err_reason.ok THEN Raises("UnicodeDecodeError")
             ELSE Returns([kind |-> "error", class |-> err_class,
                           number |-> err_number, reason |-> err_reason.text])

UnknownAttributesDecode(d, p, length) ==
    LET n == length \div 2
    IN  IF ~CanUnpack(d, p, 2 * n) THEN Raises("struct.error")
        ELSE Returns([kind |-> "tuple",
                      items |-> [i \in 1..n |-> U16At(d, p + 2 * (i - 1))]])

ChannelNumberDecode(d, p, length) ==
    IF ~CanUnpack(d, p, 4) THEN Raises("struct.error")
    ELSE Returns([kind |-> "tuple", items |-> <<U16At(d, p)>>])

EvenPortDecode(d, p, length) ==
    IF ~CanUnpack(d, p, 1) THEN Raises("struct.error")
    ELSE Returns([kind |-> "int", n |-> BitAnd(U8At(d, p), 128)])

RequestedTransportDecode(d, p, length) ==
    IF ~CanUnpack(d, p, 4) THEN Raises("struct.error")
    ELSE Returns([kind |-> "int", n |-> U8At(d, p)])

ChangeRequestDecode(d, p, length) ==
    IF ~CanUnpack(d, p, 4) THEN Raises("struct.error")
    ELSE LET flags == U32At(d, p)
         IN  Returns([kind |-> "tuple", items |-> <<BitAnd(flags, 4), BitAnd(flags, 2)>>])

ResponsePortDecode(d, p, length) ==
    IF ~CanUnpack(d, p, 4) THEN Raises("struct.error")
    ELSE Returns([kind |-> "int", n |-> U16At(d, p)])

\* the classes of the module, by the decode each one has or inherits
RawClasses == {"UnknownAttribute", "MessageIntegrity", "Fingerprint", "Nonce",
               "Lifetime", "Data", "Padding"}

MappedClasses == {"MappedAddress", "AlternateServer", "ResponseOrigin", "OtherAddress"}

XorClasses == {"XorMappedAddress", "XorPeerAddress", "XorRelayedAddress"}

TextClasses == {"Username", "Realm", "Software"}

FactoryDecode(cls, d, p, length) ==
    CASE cls \in RawClasses -> RawDecode(d, p, length)
      [] cls \in MappedClasses -> MappedAddressDecode(d, p, length)
      [] cls \in XorClasses -> XorMappedAddressDecode(d, p, length)
      [] cls \in TextClasses -> TextDecode(d, p, length)
      [] cls = "ErrorCode" -> ErrorCodeDecode(d, p, length)
      [] cls = "UnknownAttributes" -> UnknownAttributesDecode(d, p, length)
      [] cls = "ChannelNumber" -> ChannelNumberDecode(d, p, length)
      [] cls = "EvenPort" -> EvenPortDecode(d, p, length)
      [] cls = "RequestedTransport" -> RequestedTransportDecode(d, p, length)
      [] cls = "ChangeRequest" -> ChangeRequestDecode(d, p, length)
      [] cls = "ResponsePort" -> ResponsePortDecode(d, p, length)

---------------------------------------------------------------------------
(* The factory registry *)

\* the @stunattribute(...) decorators of the module body, in source order
ImportList == <<
    <<ATTRIBUTE_MAPPED_ADDRESS, "MappedAddress">>,
    <<ATTRIBUTE_XOR_MAPPED_ADDRESS, "XorMappedAddress">>,
    <<ATTRIBUTE_USERNAME, "Username">>,
    <<ATTRIBUTE_MESSAGE_INTEGRITY, "MessageIntegrity">>,
    <<ATTRIBUTE_FINGERPRINT, "Fingerprint">>,
    <<ATTRIBUTE_ERROR_CODE, "ErrorCode">>,
    <<ATTRIBUTE_REALM, "Realm">>,
    <<ATTRIBUTE_NONCE, "Nonce">>,
    <<ATTRIBUTE_UNKNOWN_ATTRIBUTES, "UnknownAttributes">>,
    <<ATTRIBUTE_SOFTWARE, "Software">>,
    <<ATTRIBUTE_ALTERNATE_SERVER, "AlternateServer">>,
    <<ATTRIBUTE_CHANNEL_NUMBER, "ChannelNumber">>,
    <<ATTRIBUTE_LIFETIME, "Lifetime">>,
    <<ATTRIBUTE_XOR_PEER_ADDRESS, "XorPeerAddress">>,
    <<ATTRIBUTE_DATA, "Data">>,
    <<ATTRIBUTE_XOR_RELAYED_ADDRESS, "XorRelayedAddress">>,
    <<ATTRIBUTE_EVEN_PORT, "EvenPort">>,
    <<ATTRIBUTE_REQUESTED_TRANSPORT, "RequestedTransport">>,
    <<ATTRIBUTE_CHANGE_REQUEST, "ChangeRequest">>,
    <<ATTRIBUTE_RESPONSE_ORIGIN, "ResponseOrigin">>,
    <<ATTRIBUTE_OTHER_ADDRESS, "OtherAddress">>,
    <<ATTRIBUTE_RESPONSE_PORT, "ResponsePort">>,
    <<ATTRIBUTE_PADDING, "Padding">> >>

\* the keys the dictionary can get in this model; any other type code is absent
RegTypes == {ImportList[i][1] : i \in 1..Len(ImportList)} \cup {ATTRIBUTE_RESERVATION_TOKEN}

\* dict.get(key, default); a key without entry maps to None in the model
Get(reg, t, default) ==
    IF t \in DOMAIN reg /\ reg[t] # None THEN reg[t] ELSE default

\* truth value of what .get(attr_type, False) returns: classes are true
Truthy(x) == x # "False"

\* the mutant of add_attribute_factory without its assertion
add_attribute_factory_overwrite(reg, attr_type, factory) ==
    [raised |-> "none", registry |-> [reg EXCEPT ![attr_type] = factory]]

add_attribute_factory(reg, attr_type, factory) ==
    IF Truthy(Get(reg, attr_type, "False"))
    THEN [raised |-> "AssertionError", registry |-> reg]
    ELSE [raised |-> "none", registry |-> [reg EXCEPT ![attr_type] = factory]]

---------------------------------------------------------------------------
(* StunMessage.decode and StunMessage.decode_attributes *)

\* msg_type &= 0x3fff; msg_method = msg_type & 0xfeef
MsgMethod(msg_type) == BitAnd(BitAnd(msg_type, 16383), 65263)

\* msg_type &= 0x3fff; msg_class = msg_type >> 4 & 0x11
MsgClass(msg_type) == BitAnd(ShiftRight(BitAnd(msg_type, 16383), 4), 17)

\* struct.unpack_from(cls._HEADER_FORMAT, data): no offset is passed
HeaderPosition(k) == 0

DecodeHeader(d, k) ==
    LET p == HeaderPosition(k)
        msg_type == U16At(d, p)
    IN  [msg_method |-> MsgMethod(msg_type),
         msg_class |-> MsgClass(msg_type),
         msg_length |-> U16At(d, p + 2),
         magic_cookie |-> U32At(d, p + 4),
         transaction_id |-> Slice(d, p + 8, 12)]

\* padding = attr_length % 4
Padding(attr_length) == attr_length % 4

\* the mutant of SkipHeader that forgets the attribute header
SkipHeaderForgotten(o) == o

\* offset += StunMessageAttribute.HEADER_SIZE
SkipHeader(o) == o + ATTR_HEADER_SIZE

\* offset += attr_length + padding
SkipValue(o, attr_length) == o + attr_length + Padding(attr_length)

---------------------------------------------------------------------------
(* Inputs of StunMessage.decode *)

\* how many attributes a generated message body holds at most
MaxAttrs == 2

U16(n) == <<n \div 256, n % 256>>

\* the buffer the module decodes when it is run
msg_data ==
    <<1, 1, 0, 88, 33, 18, 164, 66, 122, 47, 43, 80, 76, 106, 116, 87,
      82, 97, 108, 86, 0, 32, 0, 8, 0, 1, 145, 23, 15, 1, 176, 32,
      0, 1, 0, 8, 0, 1, 176, 5, 46, 19, 20, 98, 128, 43, 0, 8,
      0, 1, 13, 150, 10, 240, 215, 180, 128, 44, 0, 8, 0, 1, 13, 151,
      10, 240, 215, 180, 128, 34, 0, 26, 67, 105, 116, 114, 105, 120, 45, 49,
      46, 56, 46, 55, 46, 48, 32, 39, 66, 108, 97, 99, 107, 32, 68, 111,
      119, 39, 66, 78, 128, 40, 0, 4, 174, 169, 5, 89>>

\* magic cookie and transaction id of msg_data
Cookie == SubSeq(msg_data, 5, 8)

Tid == SubSeq(msg_data, 9, 20)

Header(msg_type, msg_length, tid) == U16(msg_type) \o U16(msg_length) \o Cookie \o tid

\* attributes as RFC 5389 puts them on the wire: header, value, padding to 4
AttributeMenu == {
    \* XOR-MAPPED-ADDRESS, IPv4, the first attribute of msg_data
    <<0, 32, 0, 8, 0, 1, 145, 23, 15, 1, 176, 32>>,
    \* XOR-PEER-ADDRESS, IPv6
    <<0, 18, 0, 20, 0, 2, 145, 23, 33, 19, 165, 70, 127, 41, 44, 88,
      69, 101, 127, 92, 94, 108, 98, 88>>,
    \* type 0x7777 (no class is registered for it), length 1, 3 bytes of padding
    <<119, 119, 0, 1, 171, 0, 0, 0>>,
    \* RESERVATION-TOKEN (no class registered by the module), length 0
    <<0, 34, 0, 0>>,
    \* ERROR-CODE 401 "Bad", length 7, 1 byte of padding
    <<0, 9, 0, 7, 0, 0, 4, 1, 66, 97, 100, 0>>,
    \* USERNAME, 2 bytes of UTF-8 (U+00E9), 2 bytes of padding
    <<0, 6, 0, 2, 195, 169, 0, 0>>,
    \* DATA, length 4
    <<0, 19, 0, 4, 222, 173, 190, 239>> }

RECURSIVE Bodies(_)
Bodies(n) ==
    IF n = 0 THEN {<<>>}
    ELSE LET shorter == Bodies(n - 1)
         IN  shorter \cup {b \o a : b \in shorter, a \in AttributeMenu}

\* message types: Binding success response (0x0101) and the error response
\* of a method with bit 5 set (0x0130)
MsgTypes == {257, 304}

\* declared length relative to the body, and bytes missing at the end of the buffer
Shapes == {[delta |-> 0, cut |-> 0], [delta |-> -2, cut |-> 0],
           [delta |-> 4, cut |-> 0], [delta |-> 0, cut |-> 4]}

Declared(b, sh) == IF Len(b) + sh.delta < 0 THEN 0 ELSE Len(b) + sh.delta

Messages ==
    {Header(t, Declared(b, sh), Tid) \o SubSeq(b, 1, Len(b) - Min(sh.cut, Len(b))) :
        t \in MsgTypes, b \in Bodies(MaxAttrs), sh \in Shapes}

\* a Binding request without attributes that precedes the message in the buffer
PrefixMessage == Header(1, 0, <<1, 2, 3, 4, 5, 6, 7, 8, 9, 10, 11, 12>>)

\* one attribute for each decoder that no attribute of AttributeMenu reaches
OtherAttributes == {
    \* UNKNOWN-ATTRIBUTES, one type code, 2 bytes of padding
    <<0, 10, 0, 2, 119, 119, 0, 0>>,
    \* UNKNOWN-ATTRIBUTES, odd length 3, 1 byte of padding
    <<0, 10, 0, 3, 119, 119, 1, 0>>,
    \* CHANNEL-NUMBER
    <<0, 12, 0, 4, 64, 0, 0, 0>>,
    \* EVEN-PORT, length 1, 3 bytes of padding
    <<0, 24, 0, 1, 128, 0, 0, 0>>,
    \* REQUESTED-TRANSPORT
    <<0, 25, 0, 4, 17, 0, 0, 0>>,
    \* CHANGE-REQUEST, change IP and change port
    <<0, 3, 0, 4, 0, 0, 0, 6>>,
    \* RESPONSE-PORT
    <<0, 39, 0, 4, 13, 150, 0, 0>>,
    \* MAPPED-ADDRESS, IPv4, the second attribute of msg_data
    <<0, 1, 0, 8, 0, 1, 176, 5, 46, 19, 20, 98>>,
    \* MAPPED-ADDRESS of length 3 and of length 2
    <<0, 1, 0, 3, 0, 1, 176, 0>>,
    <<0, 1, 0, 2, 0, 1, 0, 0>>,
    \* XOR-RELAYED-ADDRESS with family 3
    <<0, 22, 0, 8, 0, 3, 145, 23, 15, 1, 176, 32>>,
    \* REALM with a byte that is not UTF-8
    <<0, 20, 0, 1, 255, 0, 0, 0>> }

OtherMessages ==
    {Header(257, Len(a), Tid) \o a \o tail : a \in OtherAttributes,
                                             tail \in {<<>>, <<0, 34, 0, 0>>}}

Buffers ==
    {pre \o m : pre \in {<<>>, PrefixMessage}, m \in Messages}
    \cup OtherMessages
    \cup {msg_data, <<>>, SubSeq(msg_data, 1, 10)}
    \* a first byte that starts with 0b10, and a ChannelData message
    \cup {Header(32769, 0, Tid), <<64, 0, 0, 4, 1, 2, 3, 4>>}

Offsets == {0, HEADER_SIZE}

\* add_attribute_factory calls made after the module is loaded
DynTypes == {ATTRIBUTE_XOR_MAPPED_ADDRESS, ATTRIBUTE_RESERVATION_TOKEN}

DynFactories == {"ErrorCode", "Data"}

---------------------------------------------------------------------------
(* The state machine *)

NoCall == [op |-> "none"]

NoHeader == [msg_method |-> 0, msg_class |-> 0, msg_length |-> 0,
             magic_cookie |-> 0, transaction_id |-> <<>>]

Init ==
    /\ registry = [t \in RegTypes |-> None]
    /\ pc = "import"
    /\ importIdx = 1
    /\ call = NoCall
    /\ raised = "none"
    /\ data = <<>>
    /\ start = 0
    /\ offset = 0
    /\ end = 0
    /\ hdr = NoHeader
    /\ attributes = <<>>
    /\ starts = <<>>
    /\ msg = NoMsg

\* one decorated class statement of the module body
StunAttribute ==
    /\ pc = "import"
    /\ importIdx <= Len(ImportList)
    /\ LET t == ImportList[importIdx][1]
           f == ImportList[importIdx][2]
           r == add_attribute_factory(registry, t, f)
       IN  /\ registry' = r.registry
           /\ raised' = r.raised
           /\ call' = [op |-> "add_attribute_factory", type |-> t, factory |-> f]
           /\ importIdx' = importIdx + 1
           /\ pc' = IF r.raised # "none" THEN "fail"
                    ELSE IF importIdx = Len(ImportList) THEN "idle" ELSE "import"
    /\ UNCHANGED <<data, start, offset, end, hdr, attributes, starts, msg>>

\* StunMessage.add_attribute_factory called once the module is loaded
AddAttributeFactory ==
    /\ pc = "idle"
    /\ \E t \in DynTypes, f \in DynFactories :
          /\ LET r == add_attribute_factory(registry, t, f)
             IN  /\ registry' = r.registry
                 /\ raised' = r.raised
          /\ call' = [op |-> "add_attribute_factory", type |-> t, factory |-> f]
    /\ UNCHANGED <<pc, importIdx, data, start, offset, end, hdr, attributes, starts, msg>>

\* StunMessage.decode(data, offset) up to the call of decode_attributes
DecodeAt(d, k) ==
    /\ data' = d
    /\ start' = k
    /\ call' = [op |-> "decode", offset |-> k]
    /\ attributes' = <<>>
    /\ starts' = <<>>
    /\ IF k >= Len(d)
       THEN /\ raised' = "IndexError"
            /\ pc' = "fail"
            /\ UNCHANGED <<hdr, offset, end>>
       ELSE IF ShiftRight(U8At(d, k), 6) # FORMAT_STUN
       THEN /\ raised' = "AssertionError"
            /\ pc' = "fail"
            /\ UNCHANGED <<hdr, offset, end>>
       ELSE IF ~CanUnpack(d, HeaderPosition(k), HEADER_SIZE)
       THEN /\ raised' = "struct.error"
            /\ pc' = "fail"
            /\ UNCHANGED <<hdr, offset, end>>
       ELSE /\ hdr' = DecodeHeader(d, k)
            /\ offset' = k + HEADER_SIZE
            /\ end' = k + HEADER_SIZE + hdr'.msg_length
            /\ raised' = "none"
            /\ pc' = "attrs"
    /\ UNCHANGED <<registry, importIdx, msg>>

Decode ==
    /\ pc = "idle"
    /\ \E d \in Buffers, k \in Offsets : DecodeAt(d, k)

\* the body of the loop of decode_attributes at position o: what it raises, or
\* the attribute it yields and the position it moves to
LoopBody(reg, d, o) ==
    IF ~CanUnpack(d, o, ATTR_HEADER_SIZE)
    THEN [raised |-> "struct.error", yielded |-> <<>>, offset |-> o]
    ELSE LET attr_type == U16At(d, o)
             attr_length == U16At(d, o + 2)
             value_offset == SkipHeader(o)
             factory == Get(reg, attr_type, "UnknownAttribute")
         IN  CHOOSE body \in
                 {IF ~r.ok
                  THEN [raised |-> r.err, yielded |-> <<>>, offset |-> o]
                  ELSE [raised |-> "none",
                        yielded |-> <<[cls |-> factory, type |-> attr_type,
                                       length |-> attr_length, value |-> r.value]>>,
                        offset |-> SkipValue(value_offset, attr_length)] :
                  r \in {FactoryDecode(factory, d, value_offset, attr_length)}} : TRUE

\* one iteration of the loop of decode_attributes
DecodeAttribute ==
    /\ pc = "attrs"
    /\ offset < end
    /\ \E body \in {LoopBody(registry, data, offset)} :
           /\ raised' = body.raised
           /\ pc' = IF body.raised = "none" THEN "attrs" ELSE "fail"
           /\ attributes' = attributes \o body.yielded
           /\ starts' = IF body.raised = "none" THEN Append(starts, offset) ELSE starts
           /\ offset' = body.offset
    /\ UNCHANGED <<registry, importIdx, call, data, start, end, hdr, msg>>

\* the loop ends and decode returns the message
Return ==
    /\ pc = "attrs"
    /\ offset >= end
    /\ msg' = [msg_method |-> hdr.msg_method, msg_class |-> hdr.msg_class,
               msg_length |-> hdr.msg_length, magic_cookie |-> hdr.magic_cookie,
               transaction_id |-> hdr.transaction_id, attributes |-> attributes]
    /\ pc' = "done"
    /\ UNCHANGED <<registry, importIdx, call, raised, data, start, offset, end,
                   hdr, attributes, starts>>

Next ==
    \/ StunAttribute
    \/ AddAttributeFactory
    \/ Decode
    \/ DecodeAttribute
    \/ Return

Spec == Init /\ [][Next]_vars

\* a call of decode runs to its end
FairSpec == Spec /\ WF_vars(DecodeAttribute) /\ WF_vars(Return)

---------------------------------------------------------------------------
(* Properties *)

\* position of the first byte after the header of the message being decoded
HeaderEnd == start + HEADER_SIZE

\* padding after a value of length L: pad = (4 - L mod 4) mod 4
RfcPad(L) == (4 - (L % 4)) % 4

\* where the loop reads, or would read, the header that follows attribute i
NextRead(i) == IF i < Len(starts) THEN starts[i + 1] ELSE offset

\* position of the value of attribute i
ValueOffset(i) == starts[i] + ATTR_HEADER_SIZE

\* RFC 5389 section 6: the 14-bit type is M11..M7 C1 M6..M4 C0 M3..M0
RfcClass(msg_type) == ((msg_type \div 16) % 2) + 2 * ((msg_type \div 256) % 2)

RfcMethod(msg_type) ==
    (msg_type % 16) + 16 * ((msg_type \div 32) % 8) + 128 * ((msg_type \div 512) % 32)

Ceil4(n) == (n + 3) \div 4

(* C1: decode returns a message only if the attribute loop stopped with its
   offset exactly at header_end + msg_length; an overshoot makes decode fail. *)
C1_ExactConsumption ==
    pc = "done" => offset = HeaderEnd + msg.msg_length

(* C2: after an attribute of declared length L whose header is at o, the next
   header is read at o + 4 + L + (4 - L mod 4) mod 4, so every attribute
   header is 4-byte aligned relative to the start of the attribute section. *)
C2_PaddingAdvance ==
    \A i \in 1..Len(attributes) :
        /\ NextRead(i) = starts[i] + ATTR_HEADER_SIZE + attributes[i].length
                         + RfcPad(attributes[i].length)
        /\ (starts[i] - HeaderEnd) % 4 = 0

(* C3: the class is the 2-bit value made of bits 4 and 8 of the 14-bit type
   and the method the 12-bit value made of its other bits packed together;
   type 0x0101 gives method 0x001 and class 0b10. *)
C3_MethodClassBits ==
    pc \in {"attrs", "done"} =>
        LET msg_type == U16At(data, HeaderPosition(start)) % 16384
        IN  /\ hdr.msg_class \in 0..3
            /\ hdr.msg_class = RfcClass(msg_type)
            /\ hdr.msg_method \in 0..4095
            /\ hdr.msg_method = RfcMethod(msg_type)
            /\ (msg_type = 257 => hdr.msg_method = 1 /\ hdr.msg_class = 2)

(* C4: a type code keeps the first factory registered for it: registering a
   type code that is bound fails and leaves the registry unchanged, and
   registering an unbound one adds that one binding and changes no other. *)
C4_FirstRegistrationWins ==
    [][ /\ \A t \in RegTypes : registry[t] # None => registry'[t] = registry[t]
        /\ (pc \in {"import", "idle"} /\ call'.op = "add_attribute_factory") =>
              IF registry[call'.type] # None
              THEN raised' = "AssertionError" /\ registry' = registry
              ELSE /\ raised' = "none"
                   /\ registry'[call'.type] = call'.factory
                   /\ \A t \in RegTypes \ {call'.type} : registry'[t] = registry[t]
      ]_vars

\* a second factory for a type code bound by an earlier call is refused
C4_Witness ==
    /\ pc = "idle"
    /\ call.op = "add_attribute_factory"
    /\ call.type = ATTRIBUTE_RESERVATION_TOKEN
    /\ call.factory = "Data"
    /\ registry[ATTRIBUTE_RESERVATION_TOKEN] = "ErrorCode"
    /\ raised = "AssertionError"

(* C5: an attribute whose type code has no factory, and whose value lies
   inside the declared body, never aborts decoding and is yielded as an
   UnknownAttribute with the declared type and length and exactly the bytes
   [valueOffset, valueOffset + length) as value. *)
C5_UnknownPreserved ==
    /\ \A i \in 1..Len(attributes) :
          (/\ Get(registry, attributes[i].type, None) = None
           /\ ValueOffset(i) + attributes[i].length <= end)
          => /\ attributes[i].cls = "UnknownAttribute"
             /\ attributes[i].type = U16At(data, starts[i])
             /\ attributes[i].length = U16At(data, starts[i] + 2)
             /\ attributes[i].value.kind = "bytes"
             /\ Len(attributes[i].value.bytes) = attributes[i].length
             /\ \A j \in 1..attributes[i].length :
                   attributes[i].value.bytes[j] = data[ValueOffset(i) + j]
    /\ (pc = "fail" /\ offset < end /\ CanUnpack(data, offset, ATTR_HEADER_SIZE))
          => Get(registry, U16At(data, offset), None) # None

(* C6: decode fails when fewer than 20 bytes are available for the header and
   when offset + 20 + msg_length exceeds the buffer, also when only value
   bytes of the last attribute are missing. *)
C6_ShortBufferFails ==
    pc = "done" =>
        /\ Len(data) - start >= HEADER_SIZE
        /\ start + HEADER_SIZE + msg.msg_length <= Len(data)

(* C7: for the XOR address attributes, with magic the 16 bytes at buffer
   offset 4, the port is xorPort XOR (magic[0]*256 + magic[1]), the address has
   4 (IPv4) or 16 (IPv6) bytes, byte i is xorAddress[i] XOR magic[i], and the
   same XOR gives the wire bytes back. *)
C7_XorAddress ==
    \A i \in 1..Len(attributes) :
        attributes[i].cls \in XorClasses =>
            LET v == attributes[i].value
                vo == ValueOffset(i)
                magic == Slice(data, 4, 16)
                n == IF v.family = FAMILY_IPv4 THEN 4 ELSE 16
            IN  /\ v.family = U8At(data, vo + 1)
                /\ v.family \in {FAMILY_IPv4, FAMILY_IPv6}
                /\ v.port = BitXor(U16At(data, vo + 2), magic[1] * 256 + magic[2])
                /\ BitXor(v.port, magic[1] * 256 + magic[2]) = U16At(data, vo + 2)
                /\ Len(v.address) = n
                /\ vo + VALUE_HEADER_SIZE + n <= Len(data)
                /\ \A j \in 1..n :
                      /\ v.address[j] = BitXor(data[vo + VALUE_HEADER_SIZE + j], magic[j])
                      /\ BitXor(v.address[j], magic[j]) = data[vo + VALUE_HEADER_SIZE + j]

(* C8: decode(data, k) takes the header fields from the 20 bytes [k, k+20) and
   the attributes from [k+20, k+20+msg_length), for every k. *)
C8_HeaderAtOffset ==
    pc = "done" =>
        /\ CanUnpack(data, start, HEADER_SIZE)
        /\ msg.msg_method = MsgMethod(U16At(data, start))
        /\ msg.msg_class = MsgClass(U16At(data, start))
        /\ msg.msg_length = U16At(data, start + 2)
        /\ msg.magic_cookie = U32At(data, start + 4)
        /\ msg.transaction_id = Slice(data, start + 8, 12)
        /\ end = start + HEADER_SIZE + U16At(data, start + 2)
        /\ (starts # <<>> => starts[1] = start + HEADER_SIZE)

(* C9: an ERROR-CODE attribute of length L >= 4 decodes to the low 3 bits of
   value byte 2, value byte 3, and as reason exactly the L-4 bytes
   [valueOffset+4, valueOffset+L) decoded as text. *)
C9_ErrorReason ==
    \A i \in 1..Len(attributes) :
        (/\ attributes[i].cls = "ErrorCode"
         /\ attributes[i].type = ATTRIBUTE_ERROR_CODE
         /\ attributes[i].length >= 4)
        => LET v == attributes[i].value
               vo == ValueOffset(i)
               L == attributes[i].length
           IN  /\ v.class = U8At(data, vo + 2) % 8
               /\ v.number = U8At(data, vo + 3)
               /\ v.reason = Utf8Decode(Slice(data, vo + 4, L - 4)).text

(* C10: the attribute loop terminates on every input: an iteration that
   yields an attribute moves the offset forward by at least 4, at most
   ceil(msg_length / 4) attributes are yielded, and the loop is left. *)
C10_LoopTerminates ==
    /\ [][ /\ (pc = "attrs" /\ pc' = "attrs") =>
                 /\ offset' >= offset + 4
                 /\ Len(attributes') = Len(attributes) + 1
           /\ pc' \in {"attrs", "done"} =>
                 /\ 4 * Len(attributes') <= offset' - HeaderEnd'
                 /\ Len(attributes') <= Ceil4(hdr'.msg_length)
         ]_vars
    /\ (pc = "attrs") ~> (pc \in {"done", "fail"})

\* a message with an attribute of length 0 among several was decoded to its end
C10_Witness ==
    /\ pc = "done"
    /\ Len(attributes) >= 2
    /\ \E i \in 1..Len(attributes) : attributes[i].length = 0

====
